---- MODULE Spec2Model ----
(***************************************************************************)
(* Model of src/xai/algorithms.py: build_grid, print_bboxes,               *)
(* occlusion_test and grad_cam.                                            *)
(*                                                                         *)
(* Arrays are modelled with numpy's semantics: an n-d array is a flat      *)
(* C-order buffer plus a shape, slices clip to the axis, a boolean index   *)
(* must match the leading axes of the array it indexes.  Floating point    *)
(* values are exact rationals [n |-> numerator, d |-> denominator]; d = 0  *)
(* stands for the IEEE results of a division by zero (NaN, +Inf, -Inf).    *)
(***************************************************************************)
EXTENDS Integers, Sequences, FiniteSets, TLC

VARIABLES
    pc,                \* position of the running call
    \* ---- build_grid / print_bboxes
    stride, size, height, width,   \* arguments (image_shape = (height, width, _))
    boxes,             \* build_grid's return value, a sequence of 4-tuples
    bboxes_img,        \* print_bboxes' image, rows of columns
    idx,               \* print_bboxes' loop index (0-based, next box to paint)
    \* ---- occlusion_test
    heap,              \* the array buffers: reference -> flat C-order contents
    caller_before,     \* contents of the caller's buffer when the call began
    batch_img,         \* reference held by batch_img after line 87
    occlusion_zones,   \* argument: [shape |-> ..., data |-> flat contents]
    model,             \* the external model as observed: image -> probabilities
    inferences,        \* log of model.predict calls: [u |-> ..., img |-> ...]
    original_prop,     \* baseline probability vector
    index_object,      \* arg-max class of the baseline (0-based)
    heatmap,           \* flat contents of the (1, side, side) heatmap
    todo,              \* identifiers the for loop has still to visit
    u_val, mask,       \* current identifier and its boolean mask (flat)
    img_ocluded,       \* reference held by img_ocluded
    oclussion_prop,    \* relative drop of the current identifier
    heatmap_max,       \* heatmap.max() as evaluated on line 114
    \* ---- grad_cam
    pred_index,        \* argument, -1 for None; the class explained (0-based)
    preds,             \* probability vector of the forward pass
    last_conv_layer_output,  \* activations: position -> channel -> value
    grads,             \* gradient of the class score w.r.t. the activations
    pooled_grads,      \* per-channel mean of grads
    cam_heatmap,       \* grad_cam's heatmap: position -> value
    cam_max            \* tf.math.reduce_max(heatmap) as evaluated on line 54

gridVars == <<stride, size, height, width, boxes, bboxes_img, idx>>
occVars == <<heap, caller_before, batch_img, occlusion_zones, model, inferences,
             original_prop, index_object, heatmap, todo, u_val, mask,
             img_ocluded, oclussion_prop, heatmap_max>>
camVars == <<pred_index, preds, last_conv_layer_output, grads, pooled_grads,
             cam_heatmap, cam_max>>
vars == <<pc, gridVars, occVars, camVars>>

----------------------------------------------------------------------------
(* Bounds of the model *)
MaxStride == 2
MaxSize == 2
MaxExtent == 4          \* largest image height / width tried for the grid
ImgSide == 4            \* side of the model's input image (224 in the source)
MaxRegionId == 1        \* region identifiers of a partition are 0..MaxRegionId

(* Program constants *)
Channels == 3           \* colour channels of the model's input

----------------------------------------------------------------------------
(* numpy helpers used by build_grid *)

\* np.arange(start, stop, step) for step > 0: start, start+step, ... below stop
RECURSIVE Arange(_, _, _)
Arange(start, stop, step) ==
    IF start >= stop THEN <<>> ELSE <<start>> \o Arange(start + step, stop, step)

\* ndarray.ravel() of a 2-d array given as rows: C order
RECURSIVE Ravel(_)
Ravel(rows) ==
    IF rows = <<>> THEN <<>> ELSE Head(rows) \o Ravel(Tail(rows))

\* np.meshgrid(x, y) with the default indexing='xy': both results have shape
\* (len(y), len(x)); the first repeats x along the rows, the second repeats y
\* along the columns.  The inputs are 1-d sequences (meshgrid flattens them).
MeshgridX(x, y) == [i \in 1..Len(y) |-> [j \in 1..Len(x) |-> x[j]]]
MeshgridY(x, y) == [i \in 1..Len(y) |-> [j \in 1..Len(x) |-> y[i]]]

\* np.stack([a, b], axis=2).reshape([-1, 2]) for a, b of shape (n, 1)
StackReshape2(a, b) == [k \in 1..Len(a) |-> <<a[k][1], b[k][1]>>]

\* build_grid with the boxes in column-major order: what the reshape of line
\* 69 would give had the origins been flattened along y first
BuildGridColumnMajor(st, sz, h, w) ==
    LET start_cx == MeshgridX(Arange(0, w, sz * st), Arange(0, h, sz * st))
        start_cy == MeshgridY(Arange(0, w, sz * st), Arange(0, h, sz * st))
        \* the origins flattened in column-major (Fortran) order
        flat_cx  == [k \in 1..(Len(start_cx) * Len(start_cx[1])) |->
                        start_cx[((k - 1) % Len(start_cx)) + 1]
                                [((k - 1) \div Len(start_cx)) + 1]]
        flat_cy  == [k \in 1..(Len(start_cy) * Len(start_cy[1])) |->
                        start_cy[((k - 1) % Len(start_cy)) + 1]
                                [((k - 1) \div Len(start_cy)) + 1]]
    IN  [k \in 1..Len(flat_cx) |->
            <<flat_cx[k], flat_cy[k], flat_cx[k] + sz, flat_cy[k] + sz>>]

\* build_grid(stride, size, (height, width, _))
BuildGrid(st, sz, h, w) ==
    LET cx           == Arange(0, w, sz * st)                     \* line 62
        cy           == Arange(0, h, sz * st)                     \* line 63
        start_cx     == MeshgridX(cx, cy)                         \* line 64
        start_cy     == MeshgridY(cx, cy)
        box_widths   == MeshgridX(<<sz>>, Ravel(start_cx))        \* line 66
        box_center_x == MeshgridY(<<sz>>, Ravel(start_cx))
        box_heights  == MeshgridX(<<sz>>, Ravel(start_cy))        \* line 67
        box_center_y == MeshgridY(<<sz>>, Ravel(start_cy))
        box_start    == StackReshape2(box_center_x, box_center_y) \* line 69
        box_sizes    == StackReshape2(box_widths, box_heights)    \* line 70
        box_end      == [k \in 1..Len(box_start) |->              \* line 72
                            <<box_start[k][1] + box_sizes[k][1],
                              box_start[k][2] + box_sizes[k][2]>>]
    IN  [k \in 1..Len(box_start) |-> box_start[k] \o box_end[k]]  \* line 73

----------------------------------------------------------------------------
(* print_bboxes *)

\* np.zeros((rows, cols))
Zeros2(rows, cols) == [r \in 1..rows |-> [c \in 1..cols |-> 0]]

\* the indices a slice start:stop selects on an axis of length n
\* (0-based; start and stop are non-negative here, numpy clips them to n)
SliceRange(start, stop, n) == {i \in 0..(n - 1) : start <= i /\ i < stop}

\* bboxes_img[bb[0]:bb[2], bb[1]:bb[3]] = value      (line 81)
\* the FIRST axis of the image (rows) is sliced by bb[0]:bb[2], the second
\* (columns) by bb[1]:bb[3]
PaintBox(img, bb, value) ==
    LET nrows == Len(img)
        ncols == IF nrows = 0 THEN 0 ELSE Len(img[1])
    IN  [r \in 1..nrows |-> [c \in 1..ncols |->
            IF /\ (r - 1) \in SliceRange(bb[1], bb[3], nrows)
               /\ (c - 1) \in SliceRange(bb[2], bb[4], ncols)
            THEN value ELSE img[r][c]]]

\* print_bboxes(bboxes, (rows, cols)) as a whole
RECURSIVE PaintFrom(_, _, _)
PaintFrom(img, bboxes, i) ==
    IF i > Len(bboxes) THEN img
    ELSE PaintFrom(PaintBox(img, bboxes[i], i), bboxes, i + 1)

PrintBboxes(bboxes, rows, cols) == PaintFrom(Zeros2(rows, cols), bboxes, 1)

----------------------------------------------------------------------------
(* Values of the variables of a function that is not the one running *)

GridIdle ==
    /\ stride = 1 /\ size = 1 /\ height = 1 /\ width = 1
    /\ boxes = <<>> /\ bboxes_img = <<>> /\ idx = 0

OccIdle ==
    /\ heap = [r \in {"arg", "batch", "ocl"} |-> <<>>]
    /\ caller_before = <<>>
    /\ batch_img = "none"
    /\ occlusion_zones = [shape |-> <<>>, data |-> <<>>]
    /\ model = {}
    /\ inferences = <<>>
    /\ original_prop = <<>>
    /\ index_object = 0
    /\ heatmap = <<>>
    /\ todo = <<>>
    /\ u_val = 0
    /\ mask = <<>>
    /\ img_ocluded = "none"
    /\ oclussion_prop = [n |-> 0, d |-> 1]
    /\ heatmap_max = [n |-> 0, d |-> 1]

CamIdle ==
    /\ pred_index = -1
    /\ preds = <<>>
    /\ last_conv_layer_output = <<>>
    /\ grads = <<>>
    /\ pooled_grads = <<>>
    /\ cam_heatmap = <<>>
    /\ cam_max = [n |-> 0, d |-> 1]

----------------------------------------------------------------------------
(* The grid program: build_grid, then print_bboxes on its result *)

InitGrid ==
    /\ pc = "build_grid"
    /\ stride \in 1..MaxStride
    /\ size \in 1..MaxSize
    /\ height \in 1..MaxExtent
    /\ width \in 1..MaxExtent
    /\ boxes = <<>>
    /\ bboxes_img = <<>>
    /\ idx = 0
    /\ OccIdle
    /\ CamIdle

\* build_grid returns; print_bboxes allocates its image (line 79)
CallBuildGrid ==
    /\ pc = "build_grid"
    /\ boxes' = BuildGrid(stride, size, height, width)
    /\ bboxes_img' = Zeros2(height, width)
    /\ idx' = 0
    /\ pc' = "print_bboxes"
    /\ UNCHANGED <<stride, size, height, width>>
    /\ UNCHANGED <<occVars, camVars>>

\* one iteration of print_bboxes' loop (lines 80-81)
PaintNextBox ==
    /\ pc = "print_bboxes"
    /\ idx < Len(boxes)
    /\ bboxes_img' = PaintBox(bboxes_img, boxes[idx + 1], idx + 1)
    /\ idx' = idx + 1
    /\ UNCHANGED <<pc, stride, size, height, width, boxes>>
    /\ UNCHANGED <<occVars, camVars>>

\* the loop is exhausted: print_bboxes returns (line 83)
ReturnBboxes ==
    /\ pc = "print_bboxes"
    /\ idx = Len(boxes)
    /\ pc' = "grid_done"
    /\ UNCHANGED <<gridVars, occVars, camVars>>

NextGrid == CallBuildGrid \/ PaintNextBox \/ ReturnBboxes

SpecGrid == InitGrid /\ [][NextGrid]_vars

----------------------------------------------------------------------------
(* numpy helpers used by occlusion_test *)

Front(s) == SubSeq(s, 1, Len(s) - 1)

\* index tuple (0-based) of the element at flat offset off of a C-order array
RECURSIVE Unravel(_, _)
Unravel(shape, off) ==
    IF shape = <<>> THEN <<>>
    ELSE Append(Unravel(Front(shape), off \div shape[Len(shape)]),
                off % shape[Len(shape)])

\* flat offset (0-based) of the element at index tuple ix of a C-order array
RECURSIVE Offset(_, _)
Offset(shape, ix) ==
    IF shape = <<>> THEN 0
    ELSE Offset(Front(shape), Front(ix)) * shape[Len(shape)] + ix[Len(ix)]

\* number of elements of an array of this shape
RECURSIVE NumElements(_)
NumElements(shape) ==
    IF shape = <<>> THEN 1 ELSE shape[1] * NumElements(Tail(shape))

\* batch_img.reshape((1, 224, 224, 3)): the shape of the batch
ImgShape == <<1, ImgSide, ImgSide, Channels>>
\* shape of the heatmap allocated on lines 94-95:
\* (batch_img.shape[0], batch_img.shape[1], batch_img.shape[2])
HeatShape == <<ImgShape[1], ImgShape[2], ImgShape[3]>>
\* shape of the view img_ocluded[:, :, k]: axis 2 (the columns) is indexed away
ImgViewShape == <<ImgShape[1], ImgShape[2], ImgShape[4]>>
\* shape of the view heatmap[:, :, k]
HeatViewShape == <<HeatShape[1], HeatShape[2]>>

\* an assignment without np.copy: the result shares the source's buffer
NpCopyAlias(src, fresh) == src
\* np.copy(a): the reference of the result, a buffer of its own
NpCopy(src, fresh) == fresh

\* np.unique(a): the distinct values of a, ascending
RECURSIVE SortedSeq(_)
SortedSeq(S) ==
    IF S = {} THEN <<>>
    ELSE LET m == CHOOSE x \in S : \A y \in S : x <= y
         IN  <<m>> \o SortedSeq(S \ {m})
\* the distinct values with identifier 0 left out as background
NpUniqueForeground(data) == SortedSeq({data[i] : i \in 1..Len(data)} \ {0})
\* np.unique(occlusion_zones): every distinct value, 0 included
NpUnique(data) == SortedSeq({data[i] : i \in 1..Len(data)})

\* np.argmax(v): the first index (0-based) of the largest entry
ArgMax(v) ==
    (CHOOSE i \in 1..Len(v) :
        /\ \A j \in 1..Len(v) : v[j] <= v[i]
        /\ \A j \in 1..(i - 1) : v[j] < v[i]) - 1

\* view[mask] is accepted when the boolean array matches the leading axes of
\* the view; otherwise numpy raises IndexError
BoolIndexOK(viewShape, maskShape) ==
    /\ Len(maskShape) <= Len(viewShape)
    /\ \A i \in 1..Len(maskShape) : maskShape[i] = viewShape[i]

\* the mask's entry that governs the view element at index tuple vix
MaskAt(m, maskShape, vix) ==
    m[Offset(maskShape, SubSeq(vix, 1, Len(maskShape))) + 1]

\* index tuples of the elements of the batch and of the heatmap, by offset
ImgIndex == [o \in 1..NumElements(ImgShape) |-> Unravel(ImgShape, o - 1)]
HeatIndex == [o \in 1..NumElements(HeatShape) |-> Unravel(HeatShape, o - 1)]

\* img_ocluded[:, :, k][mask] = 0 written through the view into the buffer
\* (lines 102-104): the view holds the elements whose axis-2 index is k
ZeroColumn(buf, k, m, maskShape) ==
    [o \in 1..Len(buf) |->
        IF /\ ImgIndex[o][3] = k
           /\ MaskAt(m, maskShape,
                     <<ImgIndex[o][1], ImgIndex[o][2], ImgIndex[o][4]>>)
        THEN 0 ELSE buf[o]]

\* heatmap[:, :, k][mask] = v (lines 110-112)
PaintColumn(hm, k, m, maskShape, v) ==
    [o \in 1..Len(hm) |->
        IF /\ HeatIndex[o][3] = k
           /\ MaskAt(m, maskShape, <<HeatIndex[o][1], HeatIndex[o][2]>>)
        THEN v ELSE hm[o]]

----------------------------------------------------------------------------
(* floating point values as exact rationals *)

Rat(n, d) == [n |-> n, d |-> d]
IsFinite(x) == x.d # 0
Sign(k) == IF k > 0 THEN 1 ELSE IF k < 0 THEN -1 ELSE 0
RatLess(a, b) == a.n * b.d < b.n * a.d      \* both finite
RatEq(a, b) == a.n * b.d = b.n * a.d        \* both finite

\* x / y for finite x and y; y = 0 gives NaN (0/0), +Inf or -Inf
RatDiv(x, y) ==
    IF y.n = 0 THEN Rat(Sign(x.n), 0)
    ELSE IF y.n > 0 THEN Rat(x.n * y.d, x.d * y.n)
    ELSE Rat(-(x.n * y.d), x.d * (-y.n))

\* x * k for an integer k; NaN and the infinities stay what they are (k > 0)
RatScale(x, k) == IF IsFinite(x) THEN Rat(x.n * k, x.d) ELSE x

\* ndarray.max() of a flat array of finite values
RatMax(a) ==
    a[CHOOSE i \in 1..Len(a) : \A j \in 1..Len(a) : ~RatLess(a[i], a[j])]

\* truncation toward zero of a finite value
Trunc(x) == IF x.n >= 0 THEN x.n \div x.d ELSE -((-x.n) \div x.d)

\* astype(np.uint8) of a float (line 116).  A value whose truncation is in
\* 0..255 converts to it.  Any other value (negative, above 255, NaN, Inf) is
\* undefined in C; the builds either keep the low byte of the integer
\* conversion ("wrap"; NaN and Inf give 0) or saturate ("saturate").
CastUint8(x, mode) ==
    IF ~IsFinite(x)
    THEN IF mode = "saturate" /\ x.n > 0 THEN 255 ELSE 0
    ELSE IF Trunc(x) \in 0..255 THEN Trunc(x)
    ELSE IF mode = "wrap" THEN Trunc(x) % 256
    ELSE IF Trunc(x) < 0 THEN 0 ELSE 255

----------------------------------------------------------------------------
(* Inputs of occlusion_test *)

ImgLen == NumElements(ImgShape)

\* the caller's image buffer: an image with all pixel values distinct, an
\* all-black one, and one of the wrong size
ImageChoices ==
    { [o \in 1..ImgLen |-> o],
      [o \in 1..ImgLen |-> 0],
      [o \in 1..(ImgLen - 1) |-> 1] }

\* region partitions: (side, side) partitions rasterized from a grid or
\* unpainted, and every (1, side) array of identifiers
ZoneChoices ==
    { [shape |-> <<ImgSide, ImgSide>>,
       data  |-> Ravel(PrintBboxes(BuildGrid(st, sz, ImgSide, ImgSide),
                                   ImgSide, ImgSide))] :
         st \in 1..MaxStride, sz \in 1..MaxSize }
    \cup { [shape |-> <<ImgSide, ImgSide>>,
            data  |-> Ravel(Zeros2(ImgSide, ImgSide))] }
    \cup { [shape |-> <<1, ImgSide>>, data |-> d] :
             d \in [1..ImgSide -> 0..MaxRegionId] }

\* probability vectors the model may answer with, in quarters, two classes
ProbVectors == { <<1, 3>>, <<2, 2>>, <<3, 1>> }

\* the model is a pure function: an image it has seen gets the same answer
Answers(img, p) == \A e \in model : e[1] = img => e[2] = p

----------------------------------------------------------------------------
(* occlusion_test *)

InitOcc ==
    /\ pc = "occlusion_test"
    /\ GridIdle
    /\ CamIdle
    /\ caller_before \in ImageChoices
    /\ heap = [r \in {"arg", "batch", "ocl"} |->
                  IF r = "arg" THEN caller_before ELSE <<>>]
    /\ batch_img = "none"
    /\ occlusion_zones \in ZoneChoices
    /\ model = {}
    /\ inferences = <<>>
    /\ original_prop = <<>>
    /\ index_object = 0
    /\ heatmap = <<>>
    /\ todo = <<>>
    /\ u_val = 0
    /\ mask = <<>>
    /\ img_ocluded = "none"
    /\ oclussion_prop = Rat(0, 1)
    /\ heatmap_max = Rat(0, 1)

\* line 87: reshape gives a view of the caller's buffer (ValueError when the
\* element count differs), np.copy gives batch_img a buffer of its own
CopyInput ==
    /\ pc = "occlusion_test"
    /\ IF Len(heap["arg"]) # ImgLen
       THEN /\ pc' = "ValueError"
            /\ UNCHANGED <<heap, batch_img>>
       ELSE LET ref == NpCopy("arg", "batch")
            IN  /\ heap' = [heap EXCEPT ![ref] = heap["arg"]]
                /\ batch_img' = ref
                /\ pc' = "baseline"
    /\ UNCHANGED <<caller_before, occlusion_zones, model, inferences,
                   original_prop, index_object, heatmap, todo, u_val, mask,
                   img_ocluded, oclussion_prop, heatmap_max>>
    /\ UNCHANGED <<gridVars, camVars>>

\* lines 88-97: baseline inference, winning class, zero heatmap, np.unique
Baseline ==
    /\ pc = "baseline"
    /\ \E p \in ProbVectors :
          /\ Answers(heap[batch_img], p)
          /\ model' = model \cup {<<heap[batch_img], p>>}
          /\ original_prop' = p
          /\ index_object' = ArgMax(p)
    /\ inferences' = Append(inferences, [u |-> -1, img |-> heap[batch_img]])
    /\ heatmap' = [o \in 1..NumElements(HeatShape) |-> Rat(0, 1)]
    /\ todo' = NpUnique(occlusion_zones.data)
    /\ pc' = "loop"
    /\ UNCHANGED <<heap, caller_before, batch_img, occlusion_zones, u_val,
                   mask, img_ocluded, oclussion_prop, heatmap_max>>
    /\ UNCHANGED <<gridVars, camVars>>

\* lines 97-104: next identifier, its mask, a copy of the batch, and the
\* three masked writes of zero; the first write raises IndexError when the
\* mask does not fit the view
Occlude ==
    /\ pc = "loop"
    /\ todo # <<>>
    /\ LET u   == Head(todo)
           m   == [i \in 1..Len(occlusion_zones.data) |->
                      occlusion_zones.data[i] = u]
           ref == NpCopy(batch_img, "ocl")
           h1  == [heap EXCEPT ![ref] = heap[batch_img]]
           shp == occlusion_zones.shape
       IN  /\ u_val' = u
           /\ mask' = m
           /\ img_ocluded' = ref
           /\ IF BoolIndexOK(ImgViewShape, shp)
              THEN /\ heap' = [h1 EXCEPT ![ref] =
                          ZeroColumn(ZeroColumn(ZeroColumn(h1[ref],
                              0, m, shp), 1, m, shp), 2, m, shp)]
                   /\ pc' = "predict"
              ELSE /\ heap' = h1
                   /\ pc' = "IndexError"
    /\ UNCHANGED <<caller_before, batch_img, occlusion_zones, model,
                   inferences, original_prop, index_object, heatmap, todo,
                   oclussion_prop, heatmap_max>>
    /\ UNCHANGED <<gridVars, camVars>>

\* lines 106-108: inference on the occluded copy and the relative drop
PredictOccluded ==
    /\ pc = "predict"
    /\ \E p \in ProbVectors :
          /\ Answers(heap[img_ocluded], p)
          /\ model' = model \cup {<<heap[img_ocluded], p>>}
          /\ oclussion_prop' =
                RatDiv(Rat(original_prop[index_object + 1] - p[index_object + 1], 1),
                       Rat(original_prop[index_object + 1], 1))
    /\ inferences' = Append(inferences, [u |-> u_val, img |-> heap[img_ocluded]])
    /\ pc' = "paint"
    /\ UNCHANGED <<heap, caller_before, batch_img, occlusion_zones,
                   original_prop, index_object, heatmap, todo, u_val, mask,
                   img_ocluded, heatmap_max>>
    /\ UNCHANGED <<gridVars, camVars>>

\* lines 110-112: the three masked writes of the drop into the heatmap
Paint ==
    /\ pc = "paint"
    /\ LET shp == occlusion_zones.shape
       IN  IF BoolIndexOK(HeatViewShape, shp)
           THEN /\ heatmap' =
                      PaintColumn(PaintColumn(PaintColumn(heatmap,
                          0, mask, shp, oclussion_prop),
                          1, mask, shp, oclussion_prop),
                          2, mask, shp, oclussion_prop)
                /\ todo' = Tail(todo)
                /\ pc' = "loop"
           ELSE /\ pc' = "IndexError"
                /\ UNCHANGED <<heatmap, todo>>
    /\ UNCHANGED <<heap, caller_before, batch_img, occlusion_zones, model,
                   inferences, original_prop, index_object, u_val, mask,
                   img_ocluded, oclussion_prop, heatmap_max>>
    /\ UNCHANGED <<gridVars, camVars>>

\* lines 114-115: the loop is exhausted; divide by the maximum, times 255
Normalize ==
    /\ pc = "loop"
    /\ todo = <<>>
    /\ heatmap_max' = RatMax(heatmap)
    /\ heatmap' = [o \in 1..Len(heatmap) |->
                      RatScale(RatDiv(heatmap[o], heatmap_max'), 255)]
    /\ pc' = "cast"
    /\ UNCHANGED <<heap, caller_before, batch_img, occlusion_zones, model,
                   inferences, original_prop, index_object, todo, u_val, mask,
                   img_ocluded, oclussion_prop>>
    /\ UNCHANGED <<gridVars, camVars>>

\* lines 116-118: cast to uint8 and return
Cast ==
    /\ pc = "cast"
    /\ \E mode \in {"wrap", "saturate"} :
          heatmap' = [o \in 1..Len(heatmap) |-> CastUint8(heatmap[o], mode)]
    /\ pc' = "occ_done"
    /\ UNCHANGED <<heap, caller_before, batch_img, occlusion_zones, model,
                   inferences, original_prop, index_object, todo, u_val, mask,
                   img_ocluded, oclussion_prop, heatmap_max>>
    /\ UNCHANGED <<gridVars, camVars>>

NextOcc == CopyInput \/ Baseline \/ Occlude \/ PredictOccluded \/ Paint
              \/ Normalize \/ Cast

SpecOcc == InitOcc /\ [][NextOcc]_vars

----------------------------------------------------------------------------
(* grad_cam *)

\* shape (height', width', channels') of the last conv layer's output, and
\* the values its activations and gradients take in the model
CamShape == <<1, 2, 2>>
CamPositions == 1..(CamShape[1] * CamShape[2])
CamChannels == 1..CamShape[3]
ActivationValues == {-1, 0, 1}
GradientValues == {-1, 1}

RatAdd(a, b) == Rat(a.n * b.d + b.n * a.d, a.d * b.d)   \* both finite

\* sum of f[i] over the integers i of S
RECURSIVE SumOver(_, _)
SumOver(f, S) ==
    IF S = {} THEN 0
    ELSE LET i == CHOOSE x \in S : TRUE IN f[i] + SumOver(f, S \ {i})

\* tf.reduce_mean(grads, axis=(0, 1, 2)): the mean over batch and positions,
\* one value per channel (line 44)
ReduceMean(g) ==
    [c \in CamChannels |->
        Rat(SumOver([q \in CamPositions |-> g[q][c]], CamPositions),
            Cardinality(CamPositions))]

\* (last_conv_layer_output @ pooled_grads[..., tf.newaxis]) at one position:
\* the sum over the channels of activation times weight (line 50)
RECURSIVE MatVecAt(_, _, _)
MatVecAt(row, w, c) ==
    IF c = 0 THEN Rat(0, 1)
    ELSE RatAdd(MatVecAt(row, w, c - 1),
                Rat(row[c] * w[c].n, w[c].d))

\* tf.maximum(x, 0)
ClipNegative(x) == IF x.n < 0 THEN Rat(0, x.d) ELSE x

InitCam ==
    /\ pc = "grad_cam"
    /\ GridIdle
    /\ OccIdle
    /\ pred_index \in {-1} \cup {0, 1}
    /\ preds = <<>>
    /\ last_conv_layer_output = <<>>
    /\ grads = <<>>
    /\ pooled_grads = <<>>
    /\ cam_heatmap = <<>>
    /\ cam_max = Rat(0, 1)

\* lines 26-36: the forward pass of the two-output model; with no pred_index
\* the arg-max of this pass is the class explained
Forward ==
    /\ pc = "grad_cam"
    /\ last_conv_layer_output' \in [CamPositions -> [CamChannels -> ActivationValues]]
    /\ preds' \in ProbVectors
    /\ pred_index' = IF pred_index = -1 THEN ArgMax(preds') ELSE pred_index
    /\ pc' = "gradient"
    /\ UNCHANGED <<grads, pooled_grads, cam_heatmap, cam_max>>
    /\ UNCHANGED <<gridVars, occVars>>

\* line 40: the gradient the model's tape returns, any tensor of the shape
Gradient ==
    /\ pc = "gradient"
    /\ grads' \in [CamPositions -> [CamChannels -> GradientValues]]
    /\ pc' = "pool"
    /\ UNCHANGED <<pred_index, preds, last_conv_layer_output, pooled_grads,
                   cam_heatmap, cam_max>>
    /\ UNCHANGED <<gridVars, occVars>>

\* lines 44-51: channel weights and the weighted sum of the channels
WeightChannels ==
    /\ pc = "pool"
    /\ pooled_grads' = ReduceMean(grads)
    /\ cam_heatmap' = [q \in CamPositions |->
                          MatVecAt(last_conv_layer_output[q], pooled_grads',
                                   CamShape[3])]
    /\ pc' = "normalize"
    /\ UNCHANGED <<pred_index, preds, last_conv_layer_output, grads, cam_max>>
    /\ UNCHANGED <<gridVars, occVars>>

\* lines 54-56: tf.maximum(heatmap, 0) / tf.math.reduce_max(heatmap), where
\* both operands read the heatmap of line 51, and return
NormalizeCam ==
    /\ pc = "normalize"
    /\ cam_max' = RatMax(cam_heatmap)
    /\ cam_heatmap' = [q \in CamPositions |->
                          RatDiv(ClipNegative(cam_heatmap[q]), cam_max')]
    /\ pc' = "cam_done"
    /\ UNCHANGED <<pred_index, preds, last_conv_layer_output, grads,
                   pooled_grads>>
    /\ UNCHANGED <<gridVars, occVars>>

NextCam == Forward \/ Gradient \/ WeightChannels \/ NormalizeCam

SpecCam == InitCam /\ [][NextCam]_vars

----------------------------------------------------------------------------
(* Any one of the calls *)

Init == InitGrid \/ InitOcc \/ InitCam
Next == NextGrid \/ NextOcc \/ NextCam
Spec == Init /\ [][Next]_vars

----------------------------------------------------------------------------
(* Properties *)

\* ceil(a / b) for a >= 0, b > 0: the least n with n * b >= a
CeilDiv(a, b) == CHOOSE n \in 0..a : n * b >= a /\ (n - 1) * b < a

GridBuilt == pc \in {"print_bboxes", "grid_done"}

\* C1: every box k = (x_start, y_start, x_end, y_end) of build_grid is painted
\* by print_bboxes with id k+1 at exactly the pixels whose row is in
\* [y_start, y_end) and whose column is in [x_start, x_end), clipped to the
\* image.
C1_AxisConvention ==
    pc = "grid_done" =>
        \A k \in 1..Len(boxes) :
            \A r \in 0..(height - 1), c \in 0..(width - 1) :
                (bboxes_img[r + 1][c + 1] = k)
                    <=> /\ boxes[k][2] <= r /\ r < boxes[k][4]
                        /\ boxes[k][1] <= c /\ c < boxes[k][3]

\* C6: build_grid returns exactly nx*ny boxes, nx = ceil(width/step),
\* ny = ceil(height/step), step = size*stride, in row-major order: box k is
\* [x0, y0, x0+size, y0+size] with x0 = (k mod nx)*step, y0 = (k div nx)*step;
\* origins are non-decreasing in (y, x) order and boxes are not clamped.
C6_GridRowMajor ==
    GridBuilt =>
        LET step == size * stride
            nx   == CeilDiv(width, step)
            ny   == CeilDiv(height, step)
        IN  /\ Len(boxes) = nx * ny
            /\ \A k \in 0..(nx * ny - 1) :
                  boxes[k + 1] = << (k % nx) * step, (k \div nx) * step,
                                    (k % nx) * step + size,
                                    (k \div nx) * step + size >>
            /\ \A j, k \in 1..Len(boxes) :
                  j < k => \/ boxes[j][2] < boxes[k][2]
                           \/ /\ boxes[j][2] = boxes[k][2]
                              /\ boxes[j][1] <= boxes[k][1]

\* a grid of several rows and columns whose last boxes reach past the image
C6_Witness ==
    /\ pc = "grid_done"
    /\ CeilDiv(width, size * stride) >= 2
    /\ CeilDiv(height, size * stride) >= 2
    /\ \E k \in 1..Len(boxes) : boxes[k][3] > width /\ boxes[k][4] > height

\* C2: a heatmap whose maximum was zero before the final division is never
\* returned, neither by occlusion_test nor by grad_cam.
C2_DegenerateIsError ==
    /\ pc = "occ_done" => heatmap_max.n # 0
    /\ pc = "cam_done" => cam_max.n # 0

RegionIds == {occlusion_zones.data[i] : i \in 1..Len(occlusion_zones.data)}
LoopFinished == pc = "loop" /\ todo = <<>>
IsImagePartition == occlusion_zones.shape = <<ImgSide, ImgSide>>

\* C3: with a partition that holds only identifier 0, occlusion_test neither
\* runs the masking loop to completion nor returns a heatmap.
C3_OnlyZeroFails ==
    RegionIds = {0} => ~LoopFinished /\ pc \notin {"cast", "occ_done"}

\* the model's answer for the image occluded for identifier u
AnswerFor(u) ==
    LET i == CHOOSE j \in 1..Len(inferences) : inferences[j].u = u
    IN  (CHOOSE e \in model : e[1] = inferences[i].img)[2]

\* (p_base[w] - p_u[w]) / p_base[w]
RelativeDrop(u) ==
    Rat(original_prop[index_object + 1] - AnswerFor(u)[index_object + 1],
        original_prop[index_object + 1])

\* identifier of the partition at pixel (row, column), both 0-based
ZoneAt(r, c) == occlusion_zones.data[Offset(occlusion_zones.shape, <<r, c>>) + 1]

\* C4: for a (height, width) partition the region loop ends finished, and then
\* every pixel (row, column) of the heatmap holds the relative drop of the
\* region the pixel belongs to.
C4_HeatmapHoldsDrops ==
    (IsImagePartition /\ (LoopFinished \/ pc = "IndexError")) =>
        /\ LoopFinished
        /\ \A r \in 0..(ImgSide - 1), c \in 0..(ImgSide - 1) :
              RatEq(heatmap[Offset(HeatShape, <<0, r, c>>) + 1],
                    RelativeDrop(ZoneAt(r, c)))

\* the original image with all channels zero at exactly the pixels of region u
OccludedFor(u) ==
    [o \in 1..Len(caller_before) |->
        IF ZoneAt(ImgIndex[o][2], ImgIndex[o][3]) = u THEN 0
        ELSE caller_before[o]]

\* C5: for every identifier u of a (height, width) partition the model is
\* handed the original image with exactly the pixels of region u zeroed.
C5_OccludedImages ==
    (IsImagePartition /\ (LoopFinished \/ pc = "IndexError")) =>
        \A u \in RegionIds :
            \E i \in 1..Len(inferences) :
                /\ inferences[i].u = u
                /\ inferences[i].img = OccludedFor(u)

\* C7: every value grad_cam returns is in [0, 1], and the maximum is exactly 1
\* when the map before normalization has a positive entry.
C7_CamRange ==
    pc = "cam_done" =>
        /\ \A q \in CamPositions :
              /\ IsFinite(cam_heatmap[q])
              /\ 0 <= cam_heatmap[q].n
              /\ cam_heatmap[q].n <= cam_heatmap[q].d
        /\ cam_max.n > 0 =>
              \E q \in CamPositions : cam_heatmap[q].n = cam_heatmap[q].d

\* C8: the caller's buffer holds, in every state of the call, the values it
\* held when the call began.
C8_CallerBufferIntact == heap["arg"] = caller_before

\* the call returned after handing the model an image that differs from the
\* caller's: pixels were zeroed, and on a copy
C8_Witness ==
    /\ pc = "occ_done"
    /\ \E i \in 1..Len(inferences) : inferences[i].img # caller_before
    /\ heap[img_ocluded] # heap["arg"]

\* C9: a completed call made exactly R+1 inferences, R the number of distinct
\* identifiers (0 included): first the baseline on the unmodified image, which
\* fixes the winning class, then one per identifier, none twice.
C9_InferenceCount ==
    pc = "occ_done" =>
        /\ Len(inferences) = Cardinality(RegionIds) + 1
        /\ inferences[1].u = -1
        /\ inferences[1].img = caller_before
        /\ \E e \in model : e[1] = caller_before /\ index_object = ArgMax(e[2])
        /\ {inferences[i].u : i \in 2..Len(inferences)} = RegionIds
        /\ \A i, j \in 2..Len(inferences) :
              inferences[i].u = inferences[j].u => i = j

\* a completed call on a partition of several regions, one of them 0
C9_Witness ==
    /\ pc = "occ_done"
    /\ Cardinality(RegionIds) >= 2
    /\ 0 \in RegionIds

\* C10: every value of the occlusion heatmap after the division by the maximum
\* and the multiplication by 255 lies in 0..255 (values that are NaN or
\* infinite, the outcome of a zero maximum, are left aside here).
C10_ScaledInByteRange ==
    pc = "cast" =>
        \A o \in 1..Len(heatmap) :
            IsFinite(heatmap[o]) =>
                /\ 0 <= heatmap[o].n
                /\ heatmap[o].n <= 255 * heatmap[o].d

====
